---- MODULE Spec2Model ----
(***************************************************************************)
(* Model of the CSS selector builder of src/src/06-objects-tasks.js:       *)
(* checkOrder, class MyCssSelector and the cssSelectorBuilder facade.      *)
(*                                                                         *)
(* A JavaScript string is a sequence of one-character strings, so that     *)
(* includes, match, indexing and join are computed as the code computes    *)
(* them. Array indexes are 0-based as in the source.                       *)
(***************************************************************************)
EXTENDS Integers, Sequences, FiniteSets, TLC

\* ---------------------------------------------------------------- bounds
\* Number of MyCssSelector instances that can be constructed.
NBuilders == 4
\* Number of calls in a run that constructs and combines several builders.
MaxCalls == 4
\* Number of calls in a run on a single builder.
MaxChainCalls == 4

\* Plain identifier values handed to the fragment methods.
Values == {<<"a">>, <<"b">>}
\* Combinator strings handed to combine (unvalidated by the code).
Combinators == {<<"+">>, <<" ">>}
\* The values used in a run that constructs and combines several builders.
OperandValues == {<<"a">>}

Builders == 1..NBuilders

\* ------------------------------------------------- JavaScript primitives
\* The value of reading index 0 of an empty array.
Undefined == -1

\* a < b in JavaScript for array reads: false when either side is undefined.
Lt(a, b) == a # Undefined /\ b # Undefined /\ a < b

\* String.prototype.includes for a one-character needle.
Includes(s, ch) == \E i \in 1..Len(s) : s[i] = ch

\* String.prototype.includes('::').
IncludesColonColon(s) == \E i \in 1..(Len(s) - 1) : s[i] = ":" /\ s[i + 1] = ":"

\* String.prototype.match(/[.:#]/) (and /[.::#]/, the same character class).
MatchSymbol(s) == \E i \in 1..Len(s) : s[i] \in {".", ":", "#"}

\* Array.prototype.indexOf, 0-based: the first index holding an equal string.
IndexOf(arr, x) ==
  IF \E i \in 1..Len(arr) : arr[i] = x
  THEN (CHOOSE i \in 1..Len(arr) : arr[i] = x /\ \A j \in 1..(i - 1) : arr[j] # x) - 1
  ELSE Undefined

\* Array.prototype.join('') : concatenation of the strings of arr.
RECURSIVE JoinEmpty(_)
JoinEmpty(arr) ==
  IF arr = <<>> THEN <<>> ELSE Head(arr) \o JoinEmpty(Tail(arr))

\* Array.prototype.join(' ') : the strings of arr separated by one space.
RECURSIVE JoinSpace(_)
JoinSpace(arr) ==
  IF arr = <<>> THEN <<>>
  ELSE IF Len(arr) = 1 THEN Head(arr)
  ELSE Head(arr) \o <<" ">> \o JoinSpace(Tail(arr))

\* ------------------------------------------------------------ checkOrder
\* The tests of the forEach body of checkOrder, one per index array.
IsIdSel(s) == Includes(s, "#")
IsElemSel(s) == ~MatchSymbol(s)
IsClassSel(s) == Includes(s, ".")
IsAttrSel(s) == Includes(s, "[")
IsPseudoClassSel(s) ==
  /\ Len(s) >= 1
  /\ s[1] = ":"
  /\ (Len(s) < 2 \/ s[2] # ":")
IsPseudoElemSel(s) == IncludesColonColon(s)

\* The test that guards the push onto the index array named kind.
SelTest(kind, s) ==
  CASE kind = "id" -> IsIdSel(s)
    [] kind = "elem" -> IsElemSel(s)
    [] kind = "class" -> IsClassSel(s)
    [] kind = "attr" -> IsAttrSel(s)
    [] kind = "pseudoClass" -> IsPseudoClassSel(s)
    [] kind = "pseudoElem" -> IsPseudoElemSel(s)

\* The index array the forEach builds: for every i in order whose fragment
\* passes the array's test, arr.indexOf(arr[i]) is pushed.
Indexes(arr, kind) ==
  LET F[i \in 0..Len(arr)] ==
        IF i = 0 THEN <<>>
        ELSE IF SelTest(kind, arr[i]) THEN Append(F[i - 1], IndexOf(arr, arr[i]))
        ELSE F[i - 1]
  IN F[Len(arr)]

\* xs[0] of a JavaScript array.
First(xs) == IF xs = <<>> THEN Undefined ELSE xs[1]

\* TRUE iff checkOrder(arr) throws the 'Selector parts should be arranged
\* in the following order...' error.
checkOrder(arr) ==
  LET classIndexes == Indexes(arr, "class")
      attrIndexes == Indexes(arr, "attr")
      pseudoClassIndexes == Indexes(arr, "pseudoClass")
      pseudoElemIndexes == Indexes(arr, "pseudoElem")
      elemIndexes == Indexes(arr, "elem")
      idIndexes == Indexes(arr, "id")
  IN \/ Lt(First(attrIndexes), First(classIndexes))
     \/ Lt(First(pseudoClassIndexes), First(classIndexes))
     \/ Lt(First(classIndexes), First(idIndexes))
     \/ Lt(First(classIndexes), First(elemIndexes))
     \/ Lt(First(pseudoClassIndexes), First(attrIndexes))
     \/ Lt(First(pseudoClassIndexes), First(idIndexes))
     \/ Lt(First(pseudoElemIndexes), First(pseudoClassIndexes))
     \/ Lt(First(pseudoElemIndexes), First(idIndexes))
     \/ Lt(First(idIndexes), First(elemIndexes))

\* ------------------------------------------------------ fragment methods
\* The string each method builds from its value.
Fragment(op, value) ==
  CASE op = "element" -> value
    [] op = "id" -> <<"#">> \o value
    [] op = "class" -> <<".">> \o value
    [] op = "attr" -> <<"[">> \o value \o <<"]">>
    [] op = "pseudoClass" -> <<":">> \o value
    [] op = "pseudoElement" -> <<":", ":">> \o value

\* Mutant: id() without its forEach guard.
ThrowsDuplicate_NoIdGuard(op, chain) ==
  CASE op = "element" -> \E i \in 1..Len(chain) : ~MatchSymbol(chain[i])
    [] op = "pseudoElement" -> \E i \in 1..Len(chain) : IncludesColonColon(chain[i])
    [] OTHER -> FALSE

\* Mutant: element() guarded like id(), by a search for '#'.
ThrowsDuplicate_ElementAsId(op, chain) ==
  CASE op = "element" -> \E i \in 1..Len(chain) : Includes(chain[i], "#")
    [] op = "id" -> \E i \in 1..Len(chain) : Includes(chain[i], "#")
    [] op = "pseudoElement" -> \E i \in 1..Len(chain) : IncludesColonColon(chain[i])
    [] OTHER -> FALSE

\* The forEach guard at the head of element, id and pseudoElement: TRUE iff
\* it throws 'Element, id and pseudo-element should not occur more then one
\* time inside the selector'. class, attr and pseudoClass have no guard.
ThrowsDuplicate(op, chain) ==
  CASE op = "element" -> \E i \in 1..Len(chain) : ~MatchSymbol(chain[i])
    [] op = "id" -> \E i \in 1..Len(chain) : Includes(chain[i], "#")
    [] op = "pseudoElement" -> \E i \in 1..Len(chain) : IncludesColonColon(chain[i])
    [] OTHER -> FALSE

\* Mutant: a method that takes the pushed fragment back when checkOrder throws.
Method_PopsOnOrderError(op, chain, value) ==
  IF ThrowsDuplicate(op, chain)
  THEN [chain |-> chain, err |-> "dup"]
  ELSE LET pushed == Append(chain, Fragment(op, value))
       IN IF checkOrder(pushed)
          THEN [chain |-> chain, err |-> "order"]
          ELSE [chain |-> pushed, err |-> "none"]

\* Mutant: a method that pushes its fragment before running the forEach guard.
Method_PushesBeforeGuard(op, chain, value) ==
  LET pushed == Append(chain, Fragment(op, value))
  IN IF ThrowsDuplicate(op, chain)
     THEN [chain |-> pushed, err |-> "dup"]
     ELSE [chain |-> pushed,
           err |-> IF checkOrder(pushed) THEN "order" ELSE "none"]

\* One fragment method run on a builder whose selectorsChain is chain: the
\* chain it leaves and the error it throws. The guard runs before the push,
\* checkOrder after it (the pushed fragment stays when checkOrder throws).
Method(op, chain, value) ==
  IF ThrowsDuplicate(op, chain)
  THEN [chain |-> chain, err |-> "dup"]
  ELSE LET pushed == Append(chain, Fragment(op, value))
       IN [chain |-> pushed,
           err |-> IF checkOrder(pushed) THEN "order" ELSE "none"]

FragmentOps == {"element", "id", "class", "attr", "pseudoClass", "pseudoElement"}

\* ----------------------------------------------------------------- state
\* selectorsChain[b], combinedSelectors[b]: the two fields of builder b.
\* nalloc: how many MyCssSelector instances have been constructed so far
\* (builders 1..nalloc exist). last: the most recent call, its arguments
\* and its outcome (the error thrown, the string returned).
\* clean[b] records the history of builder b: TRUE iff combinedSelectors[b]
\* is empty and every call on b since its chain was last empty (at
\* construction, or emptied by stringify) was a fragment method that returned
\* without error. budget: the number of calls still to be made, which bounds
\* the length of a run.
VARIABLES selectorsChain, combinedSelectors, nalloc, last, clean, budget

vars == <<selectorsChain, combinedSelectors, nalloc, last, clean, budget>>

Allocated == 1..nalloc

NoCall ==
  [op |-> "none", b |-> 0, facade |-> FALSE, value |-> <<>>, err |-> "none",
   ret |-> <<>>, left |-> 0, right |-> 0]

\* new MyCssSelector(): both arrays start empty.
constructor == [selectorsChain |-> <<>>, combinedSelectors |-> <<>>]

Init ==
  /\ selectorsChain = [b \in Builders |-> constructor.selectorsChain]
  /\ combinedSelectors = [b \in Builders |-> constructor.combinedSelectors]
  /\ nalloc = 0
  /\ last = NoCall
  /\ clean = [b \in Builders |-> TRUE]
  /\ budget = MaxCalls

\* Mutant: stringify() that empties selectorsChain on both branches.
stringifyCall_AlwaysClears(chain, combined) ==
  IF Len(combined) # 0
  THEN [ret |-> JoinSpace(combined), chain |-> <<>>]
  ELSE [ret |-> JoinEmpty(chain), chain |-> <<>>]

\* Mutant: stringify() that never reassigns selectorsChain.
stringifyCall_NeverClears(chain, combined) ==
  IF Len(combined) # 0
  THEN [ret |-> JoinSpace(combined), chain |-> chain]
  ELSE [ret |-> JoinEmpty(chain), chain |-> chain]

\* MyCssSelector.stringify on a builder with the given fields: the string
\* returned and the selectorsChain left behind.
stringifyCall(chain, combined) ==
  IF Len(combined) # 0
  THEN [ret |-> JoinSpace(combined), chain |-> chain]
  ELSE [ret |-> JoinEmpty(chain), chain |-> <<>>]

\* Mutant: combine() that pushes the two rendered operands the other way round.
combineCall_Swapped(chains, combineds, t, l, c, r) ==
  LET s1 == stringifyCall(chains[l], combineds[l])
      chains1 == [chains EXCEPT ![l] = s1.chain]
      s2 == stringifyCall(chains1[r], combineds[r])
      chains2 == [chains1 EXCEPT ![r] = s2.chain]
  IN [selectorsChain |-> chains2,
      combinedSelectors |->
        [combineds EXCEPT ![t] = combineds[t] \o <<s2.ret, c, s1.ret>>],
      left |-> s1.ret, right |-> s2.ret]

\* Mutant: combine() that renders its operands without emptying their chains.
combineCall_KeepsOperands(chains, combineds, t, l, c, r) ==
  LET s1 == stringifyCall(chains[l], combineds[l])
      s2 == stringifyCall(chains[r], combineds[r])
  IN [selectorsChain |-> chains,
      combinedSelectors |->
        [combineds EXCEPT ![t] = combineds[t] \o <<s1.ret, c, s2.ret>>],
      left |-> s1.ret, right |-> s2.ret]

\* Mutant: combine() that renders both operands from the state before the
\* call, and empties their chains afterwards.
combineCall_RendersBothFirst(chains, combineds, t, l, c, r) ==
  LET s1 == stringifyCall(chains[l], combineds[l])
      s2 == stringifyCall(chains[r], combineds[r])
      chains2 == [[chains EXCEPT ![l] = s1.chain] EXCEPT ![r] = s2.chain]
  IN [selectorsChain |-> chains2,
      combinedSelectors |->
        [combineds EXCEPT ![t] = combineds[t] \o <<s1.ret, c, s2.ret>>],
      left |-> s1.ret, right |-> s2.ret]

\* MyCssSelector.combine on builder t: selector1.stringify() runs first,
\* then selector2.stringify() on the state the first left, then the three
\* tokens are pushed onto t.combinedSelectors.
combineCall(chains, combineds, t, l, c, r) ==
  LET s1 == stringifyCall(chains[l], combineds[l])
      chains1 == [chains EXCEPT ![l] = s1.chain]
      s2 == stringifyCall(chains1[r], combineds[r])
      chains2 == [chains1 EXCEPT ![r] = s2.chain]
  IN [selectorsChain |-> chains2,
      combinedSelectors |->
        [combineds EXCEPT ![t] = combineds[t] \o <<s1.ret, c, s2.ret>>],
      left |-> s1.ret, right |-> s2.ret]

\* ------------------------------------------- MyCssSelector method calls
\* Every call uses up one unit of the run's budget.
Spend == budget > 0 /\ budget' = budget - 1

\* A fragment method op(value) called on builder b.
CallFragment(op, b, value, facade) ==
  LET m == Method(op, selectorsChain[b], value)
  IN /\ Spend
     /\ selectorsChain' = [selectorsChain EXCEPT ![b] = m.chain]
     /\ UNCHANGED combinedSelectors
     /\ clean' = [clean EXCEPT ![b] = clean[b] /\ m.err = "none"]
     /\ last' = [NoCall EXCEPT !.op = op, !.b = b, !.facade = facade,
                               !.value = value, !.err = m.err]

element(b, value) ==
  b \in Allocated /\ CallFragment("element", b, value, FALSE) /\ UNCHANGED nalloc

id(b, value) ==
  b \in Allocated /\ CallFragment("id", b, value, FALSE) /\ UNCHANGED nalloc

class(b, value) ==
  b \in Allocated /\ CallFragment("class", b, value, FALSE) /\ UNCHANGED nalloc

attr(b, value) ==
  b \in Allocated /\ CallFragment("attr", b, value, FALSE) /\ UNCHANGED nalloc

pseudoClass(b, value) ==
  b \in Allocated /\ CallFragment("pseudoClass", b, value, FALSE) /\ UNCHANGED nalloc

pseudoElement(b, value) ==
  b \in Allocated /\ CallFragment("pseudoElement", b, value, FALSE) /\ UNCHANGED nalloc

CallCombine(t, l, c, r, facade) ==
  LET k == combineCall(selectorsChain, combinedSelectors, t, l, c, r)
  IN /\ Spend
     /\ selectorsChain' = k.selectorsChain
     /\ combinedSelectors' = k.combinedSelectors
     /\ clean' = [b \in Builders |->
                   IF b = t THEN FALSE
                   ELSE IF b \in {l, r} THEN combinedSelectors[b] = <<>>
                   ELSE clean[b]]
     /\ last' = [NoCall EXCEPT !.op = "combine", !.b = t, !.facade = facade,
                               !.value = c, !.left = l, !.right = r]

combine(t, l, c, r) ==
  /\ t \in Allocated /\ l \in Allocated /\ r \in Allocated
  /\ CallCombine(t, l, c, r, FALSE)
  /\ UNCHANGED nalloc

CallStringify(b, facade) ==
  LET s == stringifyCall(selectorsChain[b], combinedSelectors[b])
  IN /\ Spend
     /\ selectorsChain' = [selectorsChain EXCEPT ![b] = s.chain]
     /\ UNCHANGED combinedSelectors
     /\ clean' = [clean EXCEPT ![b] = combinedSelectors[b] = <<>>]
     /\ last' = [NoCall EXCEPT !.op = "stringify", !.b = b, !.facade = facade,
                               !.ret = s.ret]

stringify(b) ==
  b \in Allocated /\ CallStringify(b, FALSE) /\ UNCHANGED nalloc

\* ------------------------------------------------ cssSelectorBuilder facade
\* Every facade method constructs builder nalloc + 1 and forwards the call.
CanConstruct == nalloc < NBuilders

cssSelectorBuilder_element(value) ==
  CanConstruct /\ nalloc' = nalloc + 1 /\ CallFragment("element", nalloc + 1, value, TRUE)

cssSelectorBuilder_id(value) ==
  CanConstruct /\ nalloc' = nalloc + 1 /\ CallFragment("id", nalloc + 1, value, TRUE)

\* Mutant: a facade whose class() forwards to one shared builder instead of
\* constructing a new one for every call.
cssSelectorBuilder_class_Shared(value) ==
  IF nalloc = 0
  THEN nalloc' = nalloc + 1 /\ CallFragment("class", nalloc + 1, value, TRUE)
  ELSE UNCHANGED nalloc /\ CallFragment("class", 1, value, TRUE)

cssSelectorBuilder_class(value) ==
  CanConstruct /\ nalloc' = nalloc + 1 /\ CallFragment("class", nalloc + 1, value, TRUE)

cssSelectorBuilder_attr(value) ==
  CanConstruct /\ nalloc' = nalloc + 1 /\ CallFragment("attr", nalloc + 1, value, TRUE)

cssSelectorBuilder_pseudoClass(value) ==
  CanConstruct /\ nalloc' = nalloc + 1 /\ CallFragment("pseudoClass", nalloc + 1, value, TRUE)

cssSelectorBuilder_pseudoElement(value) ==
  CanConstruct /\ nalloc' = nalloc + 1 /\ CallFragment("pseudoElement", nalloc + 1, value, TRUE)

cssSelectorBuilder_combine(l, c, r) ==
  /\ CanConstruct /\ l \in Allocated /\ r \in Allocated
  /\ nalloc' = nalloc + 1
  /\ CallCombine(nalloc + 1, l, c, r, TRUE)

cssSelectorBuilder_stringify ==
  CanConstruct /\ nalloc' = nalloc + 1 /\ CallStringify(nalloc + 1, TRUE)

\* The facade used as documented: facade calls construct the builders, the
\* fragment methods and stringify are called on them, and two builders are
\* combined through the facade.
Next ==
  \/ \E b \in Builders, v \in OperandValues : element(b, v)
  \/ \E b \in Builders, v \in OperandValues : id(b, v)
  \/ \E b \in Builders, v \in OperandValues : class(b, v)
  \/ \E b \in Builders, v \in OperandValues : attr(b, v)
  \/ \E b \in Builders, v \in OperandValues : pseudoClass(b, v)
  \/ \E b \in Builders, v \in OperandValues : pseudoElement(b, v)
  \/ \E b \in Builders : stringify(b)
  \/ \E v \in OperandValues : cssSelectorBuilder_element(v)
  \/ \E v \in OperandValues : cssSelectorBuilder_id(v)
  \/ \E v \in OperandValues : cssSelectorBuilder_class(v)
  \/ \E v \in OperandValues : cssSelectorBuilder_attr(v)
  \/ \E v \in OperandValues : cssSelectorBuilder_pseudoClass(v)
  \/ \E v \in OperandValues : cssSelectorBuilder_pseudoElement(v)
  \/ \E l, r \in Builders, c \in Combinators : cssSelectorBuilder_combine(l, c, r)
  \/ cssSelectorBuilder_stringify

Spec == Init /\ [][Next]_vars

\* The same, and combine called on an existing builder as well.
NextAny ==
  \/ Next
  \/ \E t, l, r \in Builders, c \in Combinators : combine(t, l, c, r)

SpecAny == Init /\ [][NextAny]_vars

\* One call chain of up to MaxChainCalls calls on a single builder: builder 1
\* has just been constructed (new MyCssSelector(), as every facade method
\* does first), and fragment methods and stringify are called on it.
InitChain ==
  /\ selectorsChain = [b \in Builders |-> constructor.selectorsChain]
  /\ combinedSelectors = [b \in Builders |-> constructor.combinedSelectors]
  /\ nalloc = 1
  /\ last = NoCall
  /\ clean = [b \in Builders |-> TRUE]
  /\ budget = MaxChainCalls

NextChain ==
  \/ \E v \in Values : element(1, v)
  \/ \E v \in Values : id(1, v)
  \/ \E v \in Values : class(1, v)
  \/ \E v \in Values : attr(1, v)
  \/ \E v \in Values : pseudoClass(1, v)
  \/ \E v \in Values : pseudoElement(1, v)
  \/ stringify(1)

SpecChain == InitChain /\ [][NextChain]_vars

\* Raw attribute-match expressions handed to attr verbatim, as in the doc
\* example attr('href$=".png"'): one plain, and one each holding '.', '#'
\* and ':'.
AttrValues ==
  {<<"h">>, <<"h", ".", "p">>, <<"h", "#", "p">>, <<"h", ":", "p">>}

\* One call chain on a single builder, as SpecChain, with attr given raw
\* attribute expressions.
NextRaw ==
  \/ \E v \in OperandValues : element(1, v)
  \/ \E v \in OperandValues : id(1, v)
  \/ \E v \in OperandValues : class(1, v)
  \/ \E v \in AttrValues : attr(1, v)
  \/ \E v \in OperandValues : pseudoClass(1, v)
  \/ \E v \in OperandValues : pseudoElement(1, v)
  \/ stringify(1)

SpecRaw == InitChain /\ [][NextRaw]_vars

\* ===================================================== properties checked
\* The six fragment categories of the data model, told by leading symbol.
Category(s) ==
  IF s = <<>> THEN "element"
  ELSE IF s[1] = "#" THEN "id"
  ELSE IF s[1] = "." THEN "class"
  ELSE IF s[1] = "[" THEN "attr"
  ELSE IF s[1] = ":"
       THEN (IF Len(s) >= 2 /\ s[2] = ":" THEN "pseudoElement" ELSE "pseudoClass")
  ELSE "element"

\* element < id < class < attribute < pseudo-class < pseudo-element.
Rank(cat) ==
  CASE cat = "element" -> 1
    [] cat = "id" -> 2
    [] cat = "class" -> 3
    [] cat = "attr" -> 4
    [] cat = "pseudoClass" -> 5
    [] cat = "pseudoElement" -> 6

HasCategory(chain, cat) == \E i \in 1..Len(chain) : Category(chain[i]) = cat

CountCategory(chain, cat) ==
  Cardinality({i \in 1..Len(chain) : Category(chain[i]) = cat})

\* No fragment of a later category stands before one of an earlier category.
InOrder(chain) ==
  \A i, j \in 1..Len(chain) :
    i < j => Rank(Category(chain[i])) <= Rank(Category(chain[j]))

\* Position of the first fragment of a category that occurs in the chain.
FirstOccurrence(chain, cat) ==
  CHOOSE i \in 1..Len(chain) :
    /\ Category(chain[i]) = cat
    /\ \A j \in 1..(i - 1) : Category(chain[j]) # cat

\* Two categories that both occur have their first occurrences inverted.
HasInversion(chain) ==
  \E c1, c2 \in FragmentOps :
    /\ HasCategory(chain, c1) /\ HasCategory(chain, c2)
    /\ Rank(c1) < Rank(c2)
    /\ FirstOccurrence(chain, c2) < FirstOccurrence(chain, c1)

\* At most one element, one id and one pseudo-element fragment.
CardinalityOk(chain) ==
  \A cat \in {"element", "id", "pseudoElement"} : CountCategory(chain, cat) <= 1

\* C1: order invariant. On a builder whose calls since it was fresh were
\* all fragment appends that returned without error, the chain is in the
\* category order element, id, class, attribute, pseudo-class,
\* pseudo-element.
C1_OrderInvariant ==
  \A b \in Allocated : clean[b] => InOrder(selectorsChain[b])

\* C2: order validation is complete. A fragment append that got past the
\* duplicate guard throws the order error exactly when the chain including
\* the new fragment holds two categories whose first occurrences are
\* inverted.
C2_OrderValidationComplete ==
  (last.op \in FragmentOps /\ last.err # "dup")
    => (last.err = "order" <=> HasInversion(selectorsChain[last.b]))

\* C3: cardinality invariant. Every builder's chain holds at most one
\* element, one id and one pseudo-element fragment, whatever calls were made
\* and whichever of them failed; class, attr and pseudoClass are never
\* refused as duplicates.
C3_CardinalityInvariant ==
  /\ \A b \in Allocated : CardinalityOk(selectorsChain[b])
  /\ last.op \in {"class", "attr", "pseudoClass"} => last.err # "dup"

\* C3 witness: a second element was refused on a chain that already holds an
\* element and two class fragments.
C3_Witness ==
  /\ last.op = "element" /\ last.err = "dup"
  /\ CountCategory(selectorsChain[last.b], "element") = 1
  /\ CountCategory(selectorsChain[last.b], "class") = 2

\* C4 as stated: element(value) throws the duplicate error whenever the
\* chain it is called on already holds an element, an id or a
\* pseudo-element fragment.
C4_ElementRejectsElementIdPseudoElement ==
  [][(/\ last'.op = "element"
      /\ \E cat \in {"element", "id", "pseudoElement"} :
           HasCategory(selectorsChain[last'.b], cat))
     => last'.err = "dup"]_vars

\* C4 amended: element(value) throws the duplicate error whenever the chain
\* already holds an element fragment, and fails (with the duplicate or the
\* order error) whenever the chain already holds an id fragment.
C4_ElementRejectsElement ==
  [][last'.op = "element"
     => /\ HasCategory(selectorsChain[last'.b], "element") => last'.err = "dup"
        /\ HasCategory(selectorsChain[last'.b], "id") => last'.err # "none"]_vars

\* C4 witness: element was refused as a duplicate on a chain that holds an
\* id and an element fragment.
C4_Witness ==
  /\ last.op = "element" /\ last.err = "dup"
  /\ HasCategory(selectorsChain[last.b], "element")
  /\ HasCategory(selectorsChain[last.b], "id")

\* C5: a fragment append throws the duplicate error if and only if its
\* category is element, id or pseudo-element and the chain it is called on
\* already holds a fragment of that same category.
C5_DuplicateIffSameCategory ==
  [][last'.op \in FragmentOps
     => (last'.err = "dup"
           <=> /\ last'.op \in {"element", "id", "pseudoElement"}
               /\ HasCategory(selectorsChain[last'.b], last'.op))]_vars

\* C6: no spurious rejection. On a builder whose calls since it was fresh
\* all returned without error, an append that keeps the chain in
\* non-decreasing category order with at most one element, id and
\* pseudo-element returns without error, and stringify then returns the
\* concatenation of the fragments in append order.
C6_NoSpuriousRejection ==
  [][/\ (/\ last'.op \in FragmentOps
         /\ clean[last'.b]
         /\ LET appended == Append(selectorsChain[last'.b],
                                   Fragment(last'.op, last'.value))
            IN InOrder(appended) /\ CardinalityOk(appended))
        => last'.err = "none"
     /\ (last'.op = "stringify" /\ clean[last'.b])
        => last'.ret = JoinEmpty(selectorsChain[last'.b])]_vars

\* The fragments of a chain written one after the other, without separators.
RECURSIVE Concatenation(_)
Concatenation(chain) ==
  IF Len(chain) = 0 THEN <<>>
  ELSE Concatenation(SubSeq(chain, 1, Len(chain) - 1)) \o chain[Len(chain)]

\* The tokens of a combined buffer written with one space between them.
RECURSIVE SpaceSeparated(_)
SpaceSeparated(tokens) ==
  IF Len(tokens) = 0 THEN <<>>
  ELSE IF Len(tokens) = 1 THEN tokens[1]
  ELSE SpaceSeparated(SubSeq(tokens, 1, Len(tokens) - 1))
         \o <<" ">> \o tokens[Len(tokens)]

\* The text of builder x in the current state: what x.stringify() returns.
TextOf(x) ==
  IF combinedSelectors[x] # <<>> THEN SpaceSeparated(combinedSelectors[x])
  ELSE Concatenation(selectorsChain[x])

\* C7: stringify() on a builder whose combined buffer is empty returns the
\* concatenation of the chain's fragments in append order and empties the
\* chain; a second stringify() right after it returns the empty string.
C7_StringifyConcatenatesAndClears ==
  [][(last'.op = "stringify" /\ combinedSelectors[last'.b] = <<>>)
     => /\ last'.ret = Concatenation(selectorsChain[last'.b])
        /\ selectorsChain'[last'.b] = <<>>
        /\ (last.op = "stringify" /\ last.b = last'.b) => last'.ret = <<>>]_vars

\* C7 witness: element('a').id('a').class('a').stringify() returned 'a#a.a'
\* and left the chain empty.
C7_Witness ==
  /\ last.op = "stringify"
  /\ last.ret = <<"a", "#", "a", ".", "a">>
  /\ selectorsChain[last.b] = <<>>
  /\ combinedSelectors[last.b] = <<>>

\* C8: stringify() on a builder whose combined buffer is not empty leaves
\* every chain and every combined buffer as they were, and a stringify()
\* that follows another one on the same builder returns the same string.
C8_StringifyIdempotentOnCombined ==
  [][(last'.op = "stringify" /\ combinedSelectors[last'.b] # <<>>)
     => /\ selectorsChain' = selectorsChain
        /\ combinedSelectors' = combinedSelectors
        /\ last'.ret = SpaceSeparated(combinedSelectors[last'.b])
        /\ (last.op = "stringify" /\ last.b = last'.b) => last'.ret = last.ret]_vars

\* C8 witness: stringify() returned the joined buffer of a combined builder
\* that also holds fragments in its chain.
C8_Witness ==
  /\ last.op = "stringify"
  /\ combinedSelectors[last.b] # <<>>
  /\ selectorsChain[last.b] # <<>>
  /\ last.ret = SpaceSeparated(combinedSelectors[last.b])

\* C9: for distinct builders left and right, the builder returned by the
\* facade's combine(left, c, right) stringifies to
\* text(left) + ' ' + c + ' ' + text(right), the texts taken just before the
\* call.
C9_CombineRendersBothOperands ==
  [][(last'.op = "combine" /\ last'.facade /\ last'.left # last'.right)
     => stringifyCall(selectorsChain'[last'.b], combinedSelectors'[last'.b]).ret
          = TextOf(last'.left) \o <<" ">> \o last'.value \o <<" ">>
              \o TextOf(last'.right)]_vars

\* C9 witness: a nested combine with the descendant combinator,
\* combine(combine(x, '+', x), ' ', element('a')), holds 'a + ', ' ', 'a'.
C9_Witness ==
  /\ last.op = "combine" /\ last.facade /\ last.left # last.right
  /\ combinedSelectors[last.left] # <<>>
  /\ combinedSelectors[last.b] = << <<"a", " ", "+", " ">>, <<" ">>, <<"a">> >>

\* C10: combined-buffer shape. Every builder's combined buffer is empty or
\* holds exactly three tokens, the middle one being the combinator of the
\* most recent combine call on that builder.
C10_CombinedBufferShape ==
  /\ \A b \in Allocated : Len(combinedSelectors[b]) \in {0, 3}
  /\ last.op = "combine"
       => /\ Len(combinedSelectors[last.b]) = 3
          /\ combinedSelectors[last.b][2] = last.value

\* C11 as stated: the facade's combine(left, c, right) leaves the chain and
\* the combined buffer of both operands as they were, so each operand's
\* stringify() returns afterwards what it would have returned before.
C11_CombineLeavesOperands ==
  [][(last'.op = "combine" /\ last'.facade)
     => \A x \in {last'.left, last'.right} :
          /\ selectorsChain'[x] = selectorsChain[x]
          /\ combinedSelectors'[x] = combinedSelectors[x]
          /\ stringifyCall(selectorsChain'[x], combinedSelectors'[x]).ret
               = TextOf(x)]_vars

\* C11 amended: the facade's combine(left, c, right) leaves the combined
\* buffer of both operands as it was; an operand whose combined buffer is not
\* empty keeps its chain and its text, an operand whose combined buffer is
\* empty has its chain emptied, so its stringify() returns '' afterwards.
C11_CombineConsumesPlainOperands ==
  [][(last'.op = "combine" /\ last'.facade)
     => \A x \in {last'.left, last'.right} :
          /\ combinedSelectors'[x] = combinedSelectors[x]
          /\ combinedSelectors[x] # <<>>
               => /\ selectorsChain'[x] = selectorsChain[x]
                  /\ stringifyCall(selectorsChain'[x], combinedSelectors'[x]).ret
                       = TextOf(x)
          /\ combinedSelectors[x] = <<>>
               => /\ selectorsChain'[x] = <<>>
                  /\ stringifyCall(selectorsChain'[x], combinedSelectors'[x]).ret
                       = <<>>]_vars

\* C11 witness: two plain operands that both had text were combined, and both
\* chains are empty afterwards.
C11_Witness ==
  /\ last.op = "combine" /\ last.facade /\ last.left # last.right
  /\ combinedSelectors[last.b][1] # <<>>
  /\ combinedSelectors[last.b][3] # <<>>
  /\ \A x \in {last.left, last.right} :
       selectorsChain[x] = <<>> /\ combinedSelectors[x] = <<>>

\* C12: builder independence. A facade fragment call returns a builder that
\* did not exist before, with an empty combined buffer and a chain holding
\* exactly the appended fragment. A fragment method or stringify called on
\* one builder leaves every other builder's fields as they were, and its
\* error and result are those the call gives on that builder's own fields, so
\* interleaving the call chains of two builders changes no outcome.
C12_BuilderIndependence ==
  [][/\ (last'.op \in FragmentOps /\ last'.facade)
        => /\ last'.b \notin Allocated
           /\ last'.err = "none"
           /\ combinedSelectors'[last'.b] = <<>>
           /\ selectorsChain'[last'.b] = <<Fragment(last'.op, last'.value)>>
     /\ (last'.op \in FragmentOps \cup {"stringify"})
        => \A x \in Builders \ {last'.b} :
             /\ selectorsChain'[x] = selectorsChain[x]
             /\ combinedSelectors'[x] = combinedSelectors[x]
     /\ (last'.op \in FragmentOps)
        => LET alone == Method(last'.op, selectorsChain[last'.b], last'.value)
           IN /\ last'.err = alone.err
              /\ selectorsChain'[last'.b] = alone.chain
     /\ (last'.op = "stringify") => last'.ret = TextOf(last'.b)]_vars

\* C12 witness: the call chains of builders 1 and 2 were interleaved, the
\* last call being a fragment method on builder 1 made after builder 2 had
\* received two fragments.
C12_Witness ==
  /\ last.op \in FragmentOps /\ ~last.facade /\ last.b = 1
  /\ nalloc = 2
  /\ Len(selectorsChain[1]) = 2
  /\ Len(selectorsChain[2]) = 2
  /\ combinedSelectors[1] = <<>> /\ combinedSelectors[2] = <<>>

\* The chain with the value of every attribute fragment replaced by a plain
\* identifier: the same leading symbols, no symbol inside a value.
PlainAttr(chain) ==
  [i \in 1..Len(chain) |->
     IF Category(chain[i]) = "attr" THEN <<"[", "h", "]">> ELSE chain[i]]

\* C13: order validation goes by leading symbol only. A fragment append that
\* got past the duplicate guard throws the order error exactly when it
\* would on the chain whose attribute values are plain identifiers, as
\* id('a').attr('h.p').class('a') against id('a').attr('h').class('a').
C13_ClassifiedByLeadingSymbol ==
  (last.op \in FragmentOps /\ last.err # "dup")
    => (last.err = "order" <=> checkOrder(PlainAttr(selectorsChain[last.b])))

\* C14: an order failure sticks until stringify empties the chain. An append
\* that throws the order error leaves its fragment in the chain, and the
\* chain is then one the order check rejects; on such a chain every fragment
\* append throws (the order or the duplicate error) and leaves the chain
\* rejected; stringify() on an empty combined buffer empties the chain, and on
\* an empty chain with an empty combined buffer every append returns without
\* error, as on a fresh builder.
C14_OrderFailureSticksUntilCleared ==
  [][/\ (last'.op \in FragmentOps /\ last'.err = "order")
        => /\ selectorsChain'[last'.b]
                = Append(selectorsChain[last'.b], Fragment(last'.op, last'.value))
           /\ checkOrder(selectorsChain'[last'.b])
     /\ (last'.op \in FragmentOps /\ checkOrder(selectorsChain[last'.b]))
        => /\ last'.err \in {"order", "dup"}
           /\ checkOrder(selectorsChain'[last'.b])
     /\ (last'.op = "stringify" /\ combinedSelectors[last'.b] = <<>>)
        => /\ selectorsChain'[last'.b] = <<>>
           /\ ~checkOrder(selectorsChain'[last'.b])
     /\ (/\ last'.op \in FragmentOps
         /\ selectorsChain[last'.b] = <<>>
         /\ combinedSelectors[last'.b] = <<>>)
        => last'.err = "none"]_vars

\* C14 witness: after an append had failed with the order error on the first
\* two fragments, a third append failed with it too and was pushed as well.
C14_Witness ==
  /\ last.op \in FragmentOps /\ last.err = "order"
  /\ Len(selectorsChain[last.b]) = 3
  /\ checkOrder(SubSeq(selectorsChain[last.b], 1, 2))

\* C15: a fragment append that throws the duplicate error leaves every
\* builder's chain and combined buffer exactly as they were before the call.
C15_DuplicateErrorChangesNothing ==
  [][(last'.op \in FragmentOps /\ last'.err = "dup")
     => /\ selectorsChain' = selectorsChain
        /\ combinedSelectors' = combinedSelectors]_vars

\* C15 witness: a second id() was refused on a combined builder whose chain
\* holds the first id.
C15_Witness ==
  /\ last.op = "id" /\ last.err = "dup"
  /\ selectorsChain[last.b] = << <<"#", "a">> >>
  /\ combinedSelectors[last.b] # <<>>

\* C16: the facade's combine(x, c, x) on a builder x with an empty combined
\* buffer and a non-empty chain stores x's text, c and the empty string (x's
\* chain is emptied by the left rendering before the right one runs), so the
\* result stringifies to text(x) + ' ' + c + ' '.
C16_CombineWithItself ==
  [][(/\ last'.op = "combine" /\ last'.facade
      /\ last'.left = last'.right
      /\ combinedSelectors[last'.left] = <<>>
      /\ selectorsChain[last'.left] # <<>>)
     => /\ combinedSelectors'[last'.b]
             = <<Concatenation(selectorsChain[last'.left]), last'.value, <<>> >>
        /\ stringifyCall(selectorsChain'[last'.b], combinedSelectors'[last'.b]).ret
             = Concatenation(selectorsChain[last'.left])
                 \o <<" ">> \o last'.value \o <<" ">>
        /\ selectorsChain'[last'.left] = <<>>]_vars

\* C16 witness: combine(x, '+', x) with x = element('a').id('a') holds
\* 'a#a', '+', ''.
C16_Witness ==
  /\ last.op = "combine" /\ last.facade /\ last.left = last.right
  /\ combinedSelectors[last.b] = << <<"a", "#", "a">>, <<"+">>, <<>> >>
  /\ selectorsChain[last.left] = <<>>

====
